---- MODULE Spec2Model ----
(***************************************************************************)
(* Model of the RF433 sniffer/sender firmware (src/src/main.cpp): the      *)
(* in-memory signal archive `storedSignals`, its persistence in the        *)
(* Preferences key/value store, the capture path run by loop() and the     *)
(* request handlers registered by setupWebServer().                        *)
(*                                                                         *)
(* Scaling.  The firmware holds up to 1000 signals and uses a 32-bit       *)
(* millisecond clock.  The model keeps the code's arithmetic but at a      *)
(* reduced scale: MAX_SIGNALS and AUTO_CLEANUP_THRESHOLD are small, the    *)
(* number of signals removed by a cleanup is still MAX_SIGNALS * 0.2       *)
(* truncated to an int, and the unsigned clock counts weeks (so that       *)
(* daysOld * 24 * 60 * 60 * 1000UL milliseconds is daysOld / 7 clock       *)
(* units) and wraps at MILLIS_WRAP units instead of 2^32 ms (about 7.1     *)
(* weeks).                                                                 *)
(***************************************************************************)
EXTENDS Integers, Sequences, FiniteSets, TLC

VARIABLES
    storedSignals,    \* std::vector<RFSignal> storedSignals
    signalCount,      \* int signalCount: the counter behind "Signal_<n>"
    lastSignalTime,   \* unsigned long lastSignalTime
    sniffingEnabled,  \* bool sniffingEnabled
    buzzerEnabled,    \* bool buzzerEnabled
    ledEnabled,       \* bool ledEnabled
    prefs,            \* the Preferences namespace "rf433" (durable)
    now,              \* the latest reading of millis(), 0 at boot
    response,         \* what the last handler reported (HTTP body / serial line)
    txLog,            \* triples handed to mySwitch.send(), oldest first
    feedback,         \* tone/LED calls made by the last handler
    ops,              \* passes of loop() and requests served so far, and
                      \* how many of them are explored
    received,         \* the reception the receiver holds ready, if any
    loopPc,           \* position of the loop task inside handleReceivedSignal
    newSignal,        \* the loop task's local RFSignal newSignal
    reqPc,            \* position of the async_tcp task inside a request handler
    req               \* the request being served (operation, id, arguments)

archiveVars == <<storedSignals, signalCount, prefs>>
flagVars    == <<sniffingEnabled, buzzerEnabled, ledEnabled>>
taskVars    == <<loopPc, newSignal, reqPc, req>>
vars == <<storedSignals, signalCount, lastSignalTime, sniffingEnabled,
          buzzerEnabled, ledEnabled, prefs, now, response, txLog, feedback,
          ops, received, loopPc, newSignal, reqPc, req>>

-----------------------------------------------------------------------------
(* Bounds of the model *)

\* const int MAX_SIGNALS (1000 in the firmware), at model scale
MAX_SIGNALS == 5
\* const int AUTO_CLEANUP_THRESHOLD (950 in the firmware), at model scale
AUTO_CLEANUP_THRESHOLD == 4
\* the unsigned millis() clock wraps at this many units (2^32 ms in the firmware)
MILLIS_WRAP == 4
\* loop passes and requests explored from each initial state
MaxOps == 1
\* int daysOld = 7: the default age of /api/cleanup/old
DEFAULT_DAYS == 7

BitLengths == {24, 32}
Protocols  == {1, 2}

\* received values are 0 (decode noise) .. MaxValue: enough non-zero triples
\* for a full archive to meet one it does not hold
MaxValue == (MAX_SIGNALS \div 4) + 1

\* what the receiver can report: (value, bitLength, protocol)
Triples == [value : 0..MaxValue, bitLength : BitLengths, protocol : Protocols]

\* ids a request may carry: negative, valid, one past the end and beyond
Ids == -1..MAX_SIGNALS

\* names a rename request may carry
Names == {"gate"}

\* the favorite values a request may carry
Bools == {TRUE, FALSE}

\* the readings millis() can return: the unsigned counter runs on from the
\* previous reading and wraps, so every value of its range can come next
Clock == 0..(MILLIS_WRAP - 1)

\* days a purge request may carry
DaysInputs == {DEFAULT_DAYS, 14}

Min(a, b) == IF a < b THEN a ELSE b

Range(s) == {s[i] : i \in 1..Len(s)}

\* all of s but its last element
Front(s) == SubSeq(s, 1, Len(s) - 1)

-----------------------------------------------------------------------------
(* struct RFSignal and pure helpers *)

RFSignal(n, t, ts, fav) ==
    [name |-> n, value |-> t.value, bitLength |-> t.bitLength,
     protocol |-> t.protocol, timestamp |-> ts, isFavorite |-> fav]

TripleOf(sig) ==
    [value |-> sig.value, bitLength |-> sig.bitLength, protocol |-> sig.protocol]

\* "Signal_" + String(signalCount)
AutoName(n) == "Signal_" \o ToString(n)

-----------------------------------------------------------------------------
(* isDuplicate: linear scan comparing value, bitLength and protocol *)

\* a scan that stops one element short of the end
isDuplicate_StopsShort(s, sig) ==
    \E i \in 1..(Len(s) - 1) :
        /\ s[i].value = sig.value
        /\ s[i].bitLength = sig.bitLength
        /\ s[i].protocol = sig.protocol

isDuplicate(s, sig) ==
    \E i \in 1..Len(s) :
        /\ s[i].value = sig.value
        /\ s[i].bitLength = sig.bitLength
        /\ s[i].protocol = sig.protocol

-----------------------------------------------------------------------------
(* performAutoCleanup *)

\* a comparator that puts the newest first
SortLess_NewestFirst(a, b) ==
    IF a.isFavorite /\ ~b.isFavorite THEN FALSE
    ELSE IF ~a.isFavorite /\ b.isFavorite THEN TRUE
    ELSE a.timestamp > b.timestamp

\* the comparator handed to std::sort: non-favorites before favorites,
\* then by timestamp
SortLess(a, b) ==
    IF a.isFavorite /\ ~b.isFavorite THEN FALSE
    ELSE IF ~a.isFavorite /\ b.isFavorite THEN TRUE
    ELSE a.timestamp < b.timestamp

\* std::sort is not stable: every arrangement of the elements at positions I
\* of s that is ordered by the comparator is a possible result
RECURSIVE SortedOrders(_, _)
SortedOrders(s, I) ==
    IF I = {} THEN {<<>>}
    ELSE UNION { { <<s[m]>> \o rest : rest \in SortedOrders(s, I \ {m}) } :
                 m \in {i \in I : \A j \in I : ~SortLess(s[j], s[i])} }

\* the fraction evaluated in integer arithmetic: MAX_SIGNALS * (2 / 10)
SignalsToRemove_IntegerFraction(max) == max * (2 \div 10)

\* int signalsToRemove = MAX_SIGNALS * 0.2 (double product truncated to int)
SignalsToRemove(max) == (max * 2) \div 10

\* the erase loop: walk from begin(), erase non-favorites until
\* removedCount reaches signalsToRemove
RECURSIVE EraseLoop(_, _, _)
EraseLoop(s, removedCount, signalsToRemove) ==
    IF s = <<>> \/ removedCount >= signalsToRemove THEN s
    ELSE IF ~Head(s).isFavorite
         THEN EraseLoop(Tail(s), removedCount + 1, signalsToRemove)
         ELSE <<Head(s)>> \o EraseLoop(Tail(s), removedCount, signalsToRemove)

\* the possible contents of storedSignals after performAutoCleanup()
performAutoCleanup(s, max) ==
    { EraseLoop(t, 0, SignalsToRemove(max)) : t \in SortedOrders(s, 1..Len(s)) }

-----------------------------------------------------------------------------
(* Preferences: saveStoredSignals / loadStoredSignals *)

\* what the getters return for a key that was never written
DefaultSlot ==
    [name |-> "", value |-> 0, bitLength |-> 0, protocol |-> 0,
     timestamp |-> 0, isFavorite |-> FALSE]

\* the keys sig<i>_name .. sig<i>_fav, i counted from 1 here (from 0 in the code)
SlotAt(p, i) == IF i <= Len(p.sig) THEN p.sig[i] ELSE DefaultSlot

\* a save that leaves the stored count as it was
saveStoredSignals_KeepsCount(p, s, cnt) ==
    [p EXCEPT !.nextId = cnt,
              !.sig = [i \in 1..(IF Len(s) > Len(p.sig) THEN Len(s) ELSE Len(p.sig)) |->
                          IF i <= Len(s) THEN s[i] ELSE p.sig[i]]]

\* saveStoredSignals(): writes the count, the counter, and slots 0..size-1;
\* slots at size and above keep what earlier saves left there
saveStoredSignals(p, s, cnt) ==
    [p EXCEPT !.signalCount = Len(s),
              !.nextId = cnt,
              !.sig = [i \in 1..(IF Len(s) > Len(p.sig) THEN Len(s) ELSE Len(p.sig)) |->
                          IF i <= Len(s) THEN s[i] ELSE p.sig[i]]]

\* loadStoredSignals(): reads slots 0..count-1 and keeps those with value != 0
loadStoredSignals(p) ==
    SelectSeq([i \in 1..p.signalCount |-> SlotAt(p, i)], LAMBDA e : e.value # 0)

\* preferences.getBool(key, default)
GetBool(v, default) == IF v = "unset" THEN default ELSE v = "true"

-----------------------------------------------------------------------------
(* Initial state: the device has booted (setup() has run) on a Preferences *)
(* store written by earlier runs of the firmware.                          *)

\* the i-th distinct non-zero triple, in a fixed enumeration
TripleAt(i) ==
    [value     |-> ((i - 1) \div 4) + 1,
     bitLength |-> IF ((i - 1) \div 2) % 2 = 0 THEN 24 ELSE 32,
     protocol  |-> ((i - 1) % 2) + 1]

\* timestamps of a store written within one boot (ascending) or across
\* reboots (descending: each signal captured earlier in uptime than the one
\* before it)
StampAt(pattern, i, n) ==
    IF pattern = "ascending" THEN (i - 1) % MILLIS_WRAP
    ELSE (n - i) % MILLIS_WRAP

StampPatterns == {"ascending", "descending"}

\* which of n stored signals are favorites: none, all, the first, the last,
\* every second one
FavPatterns(n) ==
    { {}, 1..n, {1} \cap (1..n), {n} \cap (1..n), {i \in 1..n : i % 2 = 0} }

\* a store holding n signals, the ones at the positions in favs marked
\* favorite, with `stale` slots beyond the count left behind by deletes
StoreOf(n, favs, pattern, stale) ==
    [signalCount     |-> n,
     nextId          |-> n + stale,
     sig             |-> [i \in 1..(n + stale) |->
                            RFSignal(AutoName(i - 1), TripleAt(i),
                                     StampAt(pattern, i, n + stale), i \in favs)],
     buzzerEnabled   |-> "unset",
     ledEnabled      |-> "unset",
     sniffingEnabled |-> "unset"]

\* what earlier /api/sniffing, /api/buzzer and /api/led requests left in
\* the store: capture switched off, one feedback channel off, both off
FlagSettings ==
    { [sniffingEnabled |-> "false", buzzerEnabled |-> "true",  ledEnabled |-> "true"],
      [sniffingEnabled |-> "true",  buzzerEnabled |-> "false", ledEnabled |-> "true"],
      [sniffingEnabled |-> "true",  buzzerEnabled |-> "true",  ledEnabled |-> "false"],
      [sniffingEnabled |-> "true",  buzzerEnabled |-> "false", ledEnabled |-> "false"] }

WithFlags(p, f) ==
    [p EXCEPT !.sniffingEnabled = f.sniffingEnabled,
              !.buzzerEnabled = f.buzzerEnabled,
              !.ledEnabled = f.ledEnabled]

\* stores whose flags were set: one signal, or MAX_SIGNALS favorites
FlaggedStores ==
    { WithFlags(p, f) : p \in { StoreOf(1, {}, "ascending", 0),
                                StoreOf(MAX_SIGNALS, 1..MAX_SIGNALS, "ascending", 0) },
                        f \in FlagSettings }

InitStores ==
    UNION { { StoreOf(n, favs, pattern, 0) :
                favs \in FavPatterns(n), pattern \in StampPatterns } :
            n \in 0..MAX_SIGNALS }
    \cup
    { StoreOf(n, {}, "ascending", 1) : n \in 0..(MAX_SIGNALS - 1) }
    \cup
    FlaggedStores

NoResponse == [op |-> "boot", text |-> "", n |-> 0]

\* receiver.available() is false
NoReception == [value |-> 0, bitLength |-> 0, protocol |-> 0]

\* a request: its operation and parameters, and the handler's locals
NoRequest ==
    [op |-> "none", id |-> 0, name |-> "", favorite |-> FALSE, daysOld |-> 0,
     count |-> 0, outOfRange |-> FALSE]

\* setup(): flags and signals are loaded from the store, the clock starts
Booted(p) ==
    /\ prefs = p
    /\ buzzerEnabled = GetBool(p.buzzerEnabled, TRUE)
    /\ ledEnabled = GetBool(p.ledEnabled, TRUE)
    /\ sniffingEnabled = GetBool(p.sniffingEnabled, TRUE)
    /\ storedSignals = loadStoredSignals(p)
    /\ signalCount = p.nextId
    /\ lastSignalTime = 0
    /\ now = 0

\* everything setup() does not take from the store
Fresh(budget) ==
    /\ response = NoResponse
    /\ txLog = <<>>
    /\ feedback = {}
    /\ ops = [loop |-> 0, req |-> 0, budget |-> budget]
    /\ received = NoReception
    /\ loopPc = "idle"
    /\ newSignal = DefaultSlot
    /\ reqPc = "idle"
    /\ req = NoRequest

Init ==
    /\ \E p \in InitStores : Booted(p)
    /\ Fresh(MaxOps)

-----------------------------------------------------------------------------
(* The capture path: loop() -> handleReceivedSignal(), run as one step *)

\* neither task is inside a handler, and the exploration budget is not spent
HandlerIdle ==
    /\ ops.loop + ops.req < ops.budget
    /\ loopPc = "idle"
    /\ reqPc = "idle"

Stored      == "Signal stored"
StorageFull == "Storage full! Signal not saved."
Duplicate   == "Duplicate signal ignored."
DecodeNoise == "value == 0"

\* the capacity test written as size() <= MAX_SIGNALS
InsertResults_RoomOffByOne(s, sig, thr, max) ==
    IF isDuplicate(s, sig)
    THEN { [signals |-> s, text |-> Duplicate, cleaned |-> FALSE, mid |-> s] }
    ELSE { IF Len(c) <= max
           THEN [signals |-> Append(c, sig), text |-> Stored,
                 cleaned |-> Len(s) >= thr, mid |-> c]
           ELSE [signals |-> c, text |-> StorageFull,
                 cleaned |-> Len(s) >= thr, mid |-> c] :
           c \in (IF Len(s) >= thr THEN performAutoCleanup(s, max) ELSE {s}) }

\* the cleanup run before the duplicate test instead of after it
InsertResults_CleanupFirst(s, sig, thr, max) ==
    { IF isDuplicate(c, sig)
      THEN [signals |-> c, text |-> Duplicate, cleaned |-> Len(s) >= thr, mid |-> c]
      ELSE IF Len(c) < max
      THEN [signals |-> Append(c, sig), text |-> Stored,
            cleaned |-> Len(s) >= thr, mid |-> c]
      ELSE [signals |-> c, text |-> StorageFull,
            cleaned |-> Len(s) >= thr, mid |-> c] :
      c \in (IF Len(s) >= thr THEN performAutoCleanup(s, max) ELSE {s}) }

\* the cleanup started only above the watermark: size() > AUTO_CLEANUP_THRESHOLD
InsertResults_AboveWatermark(s, sig, thr, max) ==
    IF isDuplicate(s, sig)
    THEN { [signals |-> s, text |-> Duplicate, cleaned |-> FALSE, mid |-> s] }
    ELSE { IF Len(c) < max
           THEN [signals |-> Append(c, sig), text |-> Stored,
                 cleaned |-> Len(s) > thr, mid |-> c]
           ELSE [signals |-> c, text |-> StorageFull,
                 cleaned |-> Len(s) > thr, mid |-> c] :
           c \in (IF Len(s) > thr THEN performAutoCleanup(s, max) ELSE {s}) }

\* the pure part of handleReceivedSignal once newSignal is built: every
\* possible [signals after, what was printed, contents after the cleanup
\* (if it ran)] for archive s, thresholds thr and max
InsertResults(s, sig, thr, max) ==
    IF isDuplicate(s, sig)
    THEN { [signals |-> s, text |-> Duplicate, cleaned |-> FALSE, mid |-> s] }
    ELSE { IF Len(c) < max
           THEN [signals |-> Append(c, sig), text |-> Stored,
                 cleaned |-> Len(s) >= thr, mid |-> c]
           ELSE [signals |-> c, text |-> StorageFull,
                 cleaned |-> Len(s) >= thr, mid |-> c] :
           c \in (IF Len(s) >= thr THEN performAutoCleanup(s, max) ELSE {s}) }

\* the feedback calls made without looking at the flags
ReceiveFeedback_IgnoresFlags == {"receiveSound", "receiveFlash"}

\* playReceiveSound() / flashLED(100, 3), gated by the flags
ReceiveFeedback ==
    (IF buzzerEnabled THEN {"receiveSound"} ELSE {}) \cup
    (IF ledEnabled THEN {"receiveFlash"} ELSE {})

\* playTransmitSound() / flashLED(200, 2), gated by the flags
TransmitFeedback ==
    (IF buzzerEnabled THEN {"transmitSound"} ELSE {}) \cup
    (IF ledEnabled THEN {"transmitFlash"} ELSE {})

\* a handler that never writes lastSignalTime
handleReceivedSignal_KeepsLastTime(t, m) ==
    IF t.value # 0
    THEN LET sig == RFSignal(AutoName(signalCount), t, m, FALSE)
             cnt == signalCount + 1
         IN  /\ now' = m
             /\ lastSignalTime' = lastSignalTime
             /\ signalCount' = cnt
             /\ feedback' = ReceiveFeedback
             /\ \E r \in InsertResults(storedSignals, sig,
                                       AUTO_CLEANUP_THRESHOLD, MAX_SIGNALS) :
                  LET afterCleanup == IF r.cleaned
                                      THEN saveStoredSignals(prefs, r.mid, cnt)
                                      ELSE prefs
                  IN  /\ storedSignals' = r.signals
                      /\ prefs' = IF r.text = Stored
                                  THEN saveStoredSignals(afterCleanup,
                                                         r.signals, cnt)
                                  ELSE afterCleanup
                      /\ response' = [op |-> "capture", text |-> r.text,
                                      n |-> Len(r.signals)]
    ELSE /\ response' = [op |-> "capture", text |-> DecodeNoise,
                         n |-> Len(storedSignals)]
         /\ feedback' = {}
         /\ UNCHANGED <<archiveVars, lastSignalTime, now>>

\* handleReceivedSignal() for a receiver that reports triple t, with
\* millis() reading m
handleReceivedSignal(t, m) ==
    IF t.value # 0
    THEN LET sig == RFSignal(AutoName(signalCount), t, m, FALSE)
             cnt == signalCount + 1
         IN  /\ now' = m
             /\ lastSignalTime' = m
             /\ signalCount' = cnt
             /\ feedback' = ReceiveFeedback
             /\ \E r \in InsertResults(storedSignals, sig,
                                       AUTO_CLEANUP_THRESHOLD, MAX_SIGNALS) :
                  LET afterCleanup == IF r.cleaned
                                      THEN saveStoredSignals(prefs, r.mid, cnt)
                                      ELSE prefs
                  IN  /\ storedSignals' = r.signals
                      /\ prefs' = IF r.text = Stored
                                  THEN saveStoredSignals(afterCleanup,
                                                         r.signals, cnt)
                                  ELSE afterCleanup
                      /\ response' = [op |-> "capture", text |-> r.text,
                                      n |-> Len(r.signals)]
    ELSE /\ response' = [op |-> "capture", text |-> DecodeNoise,
                         n |-> Len(storedSignals)]
         /\ feedback' = {}
         /\ UNCHANGED <<archiveVars, lastSignalTime, now>>

\* the receiver's interrupt handler decodes t while capture is switched
\* off: loop() does not touch the receiver, so t stays ready
Receive(t) ==
    /\ HandlerIdle
    /\ ~sniffingEnabled
    /\ received' = t
    /\ UNCHANGED <<archiveVars, flagVars, lastSignalTime, now, response, txLog,
                   feedback, ops, taskVars>>

\* a pass of loop() that skips the guard on sniffingEnabled
Capture_IgnoresFlag(t) ==
    /\ HandlerIdle
    /\ received \in {NoReception, t}
    /\ \E m \in Clock : handleReceivedSignal(t, m)
    /\ received' = NoReception
    /\ ops' = [ops EXCEPT !.loop = @ + 1]
    /\ UNCHANGED <<flagVars, txLog, taskVars>>

\* one pass of loop() that finds t ready (left ready earlier, or decoded
\* since the previous pass): the guard of loop(), then the whole of
\* handleReceivedSignal, resetAvailable() included
Capture(t) ==
    /\ HandlerIdle
    /\ sniffingEnabled
    /\ received \in {NoReception, t}
    /\ \E m \in Clock : handleReceivedSignal(t, m)
    /\ received' = NoReception
    /\ ops' = [ops EXCEPT !.loop = @ + 1]
    /\ UNCHANGED <<flagVars, txLog, taskVars>>

-----------------------------------------------------------------------------
(* Request handlers (setupWebServer), each run as one step *)

\* if (id >= 0 && id < storedSignals.size())
ValidId(id, s) == id >= 0 /\ id < Len(s)

\* an erase of the element before the one asked for: begin() + id - 1
EraseAt_Previous(s, id) ==
    [i \in 1..(Len(s) - 1) |-> IF i < id THEN s[i] ELSE s[i + 1]]

\* storedSignals.erase(storedSignals.begin() + id)
EraseAt(s, id) == [i \in 1..(Len(s) - 1) |-> IF i <= id THEN s[i] ELSE s[i + 1]]

Reply(op, text, n) == response' = [op |-> op, text |-> text, n |-> n]

\* POST /api/transmit
Transmit(id) ==
    /\ HandlerIdle
    /\ IF ValidId(id, storedSignals)
       THEN /\ txLog' = Append(txLog, TripleOf(storedSignals[id + 1]))
            /\ feedback' = TransmitFeedback
            /\ Reply("transmit", "Signal transmitted", 0)
       ELSE /\ Reply("transmit", "Invalid signal ID", 0)
            /\ UNCHANGED <<txLog, feedback>>
    /\ ops' = [ops EXCEPT !.req = @ + 1]
    /\ UNCHANGED <<archiveVars, flagVars, lastSignalTime, now, taskVars, received>>

\* a delete whose range test is id <= size
DeleteSignal_OffByOne(id) ==
    /\ HandlerIdle
    /\ IF id >= 0 /\ id <= Len(storedSignals)
       THEN /\ storedSignals' = EraseAt(storedSignals, id)
            /\ prefs' = saveStoredSignals(prefs, storedSignals', signalCount)
            /\ Reply("delete", "Signal deleted", 0)
       ELSE /\ Reply("delete", "Invalid signal ID", 0)
            /\ UNCHANGED <<storedSignals, prefs>>
    /\ ops' = [ops EXCEPT !.req = @ + 1]
    /\ UNCHANGED <<signalCount, flagVars, lastSignalTime, now, txLog, feedback,
                   taskVars, received>>

\* DELETE /api/signals
DeleteSignal(id) ==
    /\ HandlerIdle
    /\ IF ValidId(id, storedSignals)
       THEN /\ storedSignals' = EraseAt(storedSignals, id)
            /\ prefs' = saveStoredSignals(prefs, storedSignals', signalCount)
            /\ Reply("delete", "Signal deleted", 0)
       ELSE /\ Reply("delete", "Invalid signal ID", 0)
            /\ UNCHANGED <<storedSignals, prefs>>
    /\ ops' = [ops EXCEPT !.req = @ + 1]
    /\ UNCHANGED <<signalCount, flagVars, lastSignalTime, now, txLog, feedback,
                   taskVars, received>>

\* POST /api/signals/rename
RenameSignal(id, name) ==
    /\ HandlerIdle
    /\ IF ValidId(id, storedSignals)
       THEN /\ storedSignals' = [storedSignals EXCEPT ![id + 1].name = name]
            /\ prefs' = saveStoredSignals(prefs, storedSignals', signalCount)
            /\ Reply("rename", "Signal renamed", 0)
       ELSE /\ Reply("rename", "Invalid signal ID", 0)
            /\ UNCHANGED <<storedSignals, prefs>>
    /\ ops' = [ops EXCEPT !.req = @ + 1]
    /\ UNCHANGED <<signalCount, flagVars, lastSignalTime, now, txLog, feedback,
                   taskVars, received>>

\* POST /api/signals/favorite
SetFavorite(id, favorite) ==
    /\ HandlerIdle
    /\ IF ValidId(id, storedSignals)
       THEN /\ storedSignals' = [storedSignals EXCEPT ![id + 1].isFavorite = favorite]
            /\ prefs' = saveStoredSignals(prefs, storedSignals', signalCount)
            /\ Reply("favorite", IF favorite THEN "Signal marked as favorite"
                                 ELSE "Signal unmarked as favorite", 0)
       ELSE /\ Reply("favorite", "Invalid signal ID", 0)
            /\ UNCHANGED <<storedSignals, prefs>>
    /\ ops' = [ops EXCEPT !.req = @ + 1]
    /\ UNCHANGED <<signalCount, flagVars, lastSignalTime, now, txLog, feedback,
                   taskVars, received>>

\* the value a flag is stored as by putBool
StoredBool(b) == IF b THEN "true" ELSE "false"

\* POST /api/sniffing with the parameter "enabled"
SetSniffing(enabled) ==
    /\ HandlerIdle
    /\ sniffingEnabled' = enabled
    /\ prefs' = [prefs EXCEPT !.sniffingEnabled = StoredBool(enabled)]
    /\ Reply("sniffing", IF enabled THEN "Sniffing enabled"
                         ELSE "Sniffing disabled", 0)
    /\ ops' = [ops EXCEPT !.req = @ + 1]
    /\ UNCHANGED <<storedSignals, signalCount, buzzerEnabled, ledEnabled,
                   lastSignalTime, now, txLog, feedback, taskVars, received>>

\* POST /api/buzzer with the parameter "enabled"
SetBuzzer(enabled) ==
    /\ HandlerIdle
    /\ buzzerEnabled' = enabled
    /\ prefs' = [prefs EXCEPT !.buzzerEnabled = StoredBool(enabled)]
    /\ Reply("buzzer", IF enabled THEN "Buzzer enabled" ELSE "Buzzer disabled", 0)
    /\ ops' = [ops EXCEPT !.req = @ + 1]
    /\ UNCHANGED <<storedSignals, signalCount, sniffingEnabled, ledEnabled,
                   lastSignalTime, now, txLog, feedback, taskVars, received>>

\* POST /api/led with the parameter "enabled"
SetLed(enabled) ==
    /\ HandlerIdle
    /\ ledEnabled' = enabled
    /\ prefs' = [prefs EXCEPT !.ledEnabled = StoredBool(enabled)]
    /\ Reply("led", IF enabled THEN "LED enabled" ELSE "LED disabled", 0)
    /\ ops' = [ops EXCEPT !.req = @ + 1]
    /\ UNCHANGED <<storedSignals, signalCount, sniffingEnabled, buzzerEnabled,
                   lastSignalTime, now, txLog, feedback, taskVars, received>>

FlagOps == {"sniffing", "buzzer", "led"}

\* the else branches taken when a required parameter is absent
MissingParameter(op) ==
    /\ HandlerIdle
    /\ Reply(op, IF op \in {"transmit", "delete"} THEN "Missing signal ID"
                 ELSE IF op \in FlagOps THEN "Missing enabled parameter"
                 ELSE "Missing parameters", 0)
    /\ ops' = [ops EXCEPT !.req = @ + 1]
    /\ UNCHANGED <<archiveVars, flagVars, lastSignalTime, now, txLog, feedback,
                   taskVars, received>>

\* POST /api/clear
ClearAll ==
    /\ HandlerIdle
    /\ storedSignals' = <<>>
    /\ signalCount' = 0
    /\ prefs' = saveStoredSignals(prefs, <<>>, 0)
    /\ Reply("clear", "All signals cleared", 0)
    /\ ops' = [ops EXCEPT !.req = @ + 1]
    /\ UNCHANGED <<flagVars, lastSignalTime, now, txLog, feedback, taskVars, received>>

\* POST /api/cleanup
CleanupNow ==
    /\ HandlerIdle
    /\ storedSignals' \in performAutoCleanup(storedSignals, MAX_SIGNALS)
    /\ prefs' = saveStoredSignals(prefs, storedSignals', signalCount)
    /\ Reply("cleanup", "Cleanup complete", Len(storedSignals) - Len(storedSignals'))
    /\ ops' = [ops EXCEPT !.req = @ + 1]
    /\ UNCHANGED <<signalCount, flagVars, lastSignalTime, now, txLog, feedback,
                   taskVars, received>>

\* daysOld * 24 * 60 * 60 * 1000UL, in clock units of one week
AgeUnits(daysOld) == daysOld \div 7

\* unsigned long cutoffTime = millis() - (daysOld * 24 * 60 * 60 * 1000UL),
\* in unsigned arithmetic of the clock's width
CutoffTime(t, daysOld) ==
    (t + MILLIS_WRAP - (AgeUnits(daysOld) % MILLIS_WRAP)) % MILLIS_WRAP

\* the erase loop of /api/cleanup/old
PurgeLoop(s, cutoffTime) ==
    SelectSeq(s, LAMBDA e : ~(~e.isFavorite /\ e.timestamp < cutoffTime))

\* POST /api/cleanup/old, daysOld from the request or the default
PurgeOld(daysOld) ==
    /\ HandlerIdle
    /\ now' \in Clock
    /\ storedSignals' = PurgeLoop(storedSignals, CutoffTime(now', daysOld))
    /\ prefs' = saveStoredSignals(prefs, storedSignals', signalCount)
    /\ Reply("purge", "Removed", Len(storedSignals) - Len(storedSignals'))
    /\ ops' = [ops EXCEPT !.req = @ + 1]
    /\ UNCHANGED <<signalCount, flagVars, lastSignalTime, txLog, feedback,
                   taskVars, received>>

-----------------------------------------------------------------------------
(* Environment *)

\* the device is restarted: globals are re-initialised and setup() reloads
\* flags, counter and signals from the store
Restart ==
    /\ HandlerIdle
    /\ buzzerEnabled' = GetBool(prefs.buzzerEnabled, TRUE)
    /\ ledEnabled' = GetBool(prefs.ledEnabled, TRUE)
    /\ sniffingEnabled' = GetBool(prefs.sniffingEnabled, TRUE)
    /\ storedSignals' = loadStoredSignals(prefs)
    /\ signalCount' = prefs.nextId
    /\ lastSignalTime' = 0
    /\ now' = 0
    /\ Reply("boot", "", 0)
    /\ feedback' = {}
    /\ received' = NoReception
    /\ ops' = [ops EXCEPT !.req = @ + 1]
    /\ UNCHANGED <<prefs, txLog, taskVars>>

IdOps == {"transmit", "delete", "rename", "favorite"}

Next ==
    \/ \E t \in Triples : Receive(t)
    \/ \E t \in Triples : Capture(t)
    \/ \E enabled \in Bools : SetSniffing(enabled)
    \/ \E enabled \in Bools : SetBuzzer(enabled)
    \/ \E enabled \in Bools : SetLed(enabled)
    \/ \E id \in Ids : Transmit(id)
    \/ \E id \in Ids : DeleteSignal(id)
    \/ \E id \in Ids, name \in Names : RenameSignal(id, name)
    \/ \E id \in Ids, favorite \in Bools : SetFavorite(id, favorite)
    \/ \E op \in IdOps \cup FlagOps : MissingParameter(op)
    \/ ClearAll
    \/ CleanupNow
    \/ \E daysOld \in DaysInputs : PurgeOld(daysOld)
    \/ Restart

Spec == Init /\ [][Next]_vars

-----------------------------------------------------------------------------
(* A session: the same device followed one handler further, on a store of  *)
(* non-favorites, with the operator using captures, the sniffing switch,   *)
(* manual cleanups and restarts only.                                      *)

SessionStores ==
    UNION { { StoreOf(n, {}, "ascending", 0),
              WithFlags(StoreOf(n, {}, "ascending", 0),
                        [sniffingEnabled |-> "false", buzzerEnabled |-> "true",
                         ledEnabled |-> "true"]) } :
            n \in {1, AUTO_CLEANUP_THRESHOLD} }

InitSession ==
    /\ \E p \in SessionStores : Booted(p)
    /\ Fresh(MaxOps + 1)

NextSession ==
    \/ \E t \in Triples : Receive(t)
    \/ \E t \in Triples : Capture(t)
    \/ \E enabled \in Bools : SetSniffing(enabled)
    \/ CleanupNow
    \/ Restart

SpecSession == InitSession /\ [][NextSession]_vars

-----------------------------------------------------------------------------
(* The two tasks, step by step.  loop() runs in the Arduino loop task and   *)
(* the request handlers in the async_tcp task; the firmware takes no lock,  *)
(* so the steps of one task interleave with the steps of the other.        *)

\* loop(): a reception of t is pending and sniffing is enabled;
\* handleReceivedSignal builds newSignal and advances the counter
LoopReceive(t) ==
    /\ UNCHANGED received
    /\ loopPc = "idle"
    /\ ops.loop < MaxOps
    /\ sniffingEnabled
    /\ ops' = [ops EXCEPT !.loop = @ + 1]
    /\ IF t.value # 0
       THEN /\ now' \in Clock
            /\ newSignal' = RFSignal(AutoName(signalCount), t, now', FALSE)
            /\ signalCount' = signalCount + 1
            /\ loopPc' = "scan"
            /\ UNCHANGED response
       ELSE /\ Reply("capture", DecodeNoise, Len(storedSignals))
            /\ UNCHANGED <<newSignal, signalCount, loopPc, now>>
    /\ UNCHANGED <<storedSignals, prefs, flagVars, lastSignalTime, txLog,
                   feedback, reqPc, req>>

\* if (!isDuplicate(newSignal)) ... else "Duplicate signal ignored."
LoopScan ==
    /\ UNCHANGED received
    /\ loopPc = "scan"
    /\ IF isDuplicate(storedSignals, newSignal)
       THEN /\ Reply("capture", Duplicate, Len(storedSignals))
            /\ loopPc' = "feedback"
       ELSE /\ loopPc' = IF Len(storedSignals) >= AUTO_CLEANUP_THRESHOLD
                         THEN "cleanup" ELSE "append"
            /\ UNCHANGED response
    /\ UNCHANGED <<archiveVars, flagVars, lastSignalTime, now, txLog, feedback,
                   ops, newSignal, reqPc, req>>

\* performAutoCleanup(), its saveStoredSignals() included
LoopCleanup ==
    /\ UNCHANGED received
    /\ loopPc = "cleanup"
    /\ storedSignals' \in performAutoCleanup(storedSignals, MAX_SIGNALS)
    /\ prefs' = saveStoredSignals(prefs, storedSignals', signalCount)
    /\ loopPc' = "append"
    /\ UNCHANGED <<signalCount, flagVars, lastSignalTime, now, response, txLog,
                   feedback, ops, newSignal, reqPc, req>>

\* if (storedSignals.size() < MAX_SIGNALS) push_back ... else "Storage full!"
LoopAppend ==
    /\ UNCHANGED received
    /\ loopPc = "append"
    /\ IF Len(storedSignals) < MAX_SIGNALS
       THEN /\ storedSignals' = Append(storedSignals, newSignal)
            /\ loopPc' = "save"
            /\ UNCHANGED response
       ELSE /\ Reply("capture", StorageFull, Len(storedSignals))
            /\ loopPc' = "feedback"
            /\ UNCHANGED storedSignals
    /\ UNCHANGED <<signalCount, prefs, flagVars, lastSignalTime, now, txLog,
                   feedback, ops, newSignal, reqPc, req>>

\* saveStoredSignals() after the push_back, then "Signal stored (n/MAX)"
LoopSave ==
    /\ UNCHANGED received
    /\ loopPc = "save"
    /\ prefs' = saveStoredSignals(prefs, storedSignals, signalCount)
    /\ Reply("capture", Stored, Len(storedSignals))
    /\ loopPc' = "feedback"
    /\ UNCHANGED <<storedSignals, signalCount, flagVars, lastSignalTime, now,
                   txLog, feedback, ops, newSignal, reqPc, req>>

\* the feedback calls, lastSignalTime = millis(), resetAvailable()
LoopFeedback ==
    /\ UNCHANGED received
    /\ loopPc = "feedback"
    /\ feedback' = ReceiveFeedback
    /\ lastSignalTime' = now
    /\ loopPc' = "idle"
    /\ UNCHANGED <<archiveVars, flagVars, now, response, txLog, ops, newSignal,
                   reqPc, req>>

\* operations of the request surface that touch the archive
BulkOps == {"clear", "cleanup", "purge", "list", "status"}

\* a request arrives; the handlers that take an id test it against size()
ReqBegin(r) ==
    /\ UNCHANGED received
    /\ reqPc = "idle"
    /\ ops.req < MaxOps
    /\ ops' = [ops EXCEPT !.req = @ + 1]
    /\ req' = r
    /\ IF r.op \in IdOps /\ ~ValidId(r.id, storedSignals)
       THEN /\ Reply(r.op, "Invalid signal ID", 0)
            /\ reqPc' = "idle"
       ELSE /\ reqPc' = "access"
            /\ UNCHANGED response
    /\ UNCHANGED <<archiveVars, flagVars, lastSignalTime, now, txLog, feedback,
                   loopPc, newSignal>>

\* the handler reads, writes or erases storedSignals at the id it tested,
\* or runs its loop over the vector; originalCount / removedCount are kept
\* in req.count
ReqAccess ==
    /\ UNCHANGED received
    /\ reqPc = "access"
    /\ req.op \in IdOps => ValidId(req.id, storedSignals)
    /\ IF req.op = "purge" THEN now' \in Clock ELSE now' = now
    /\ storedSignals' =
         CASE req.op = "delete"   -> EraseAt(storedSignals, req.id)
           [] req.op = "rename"   ->
                [storedSignals EXCEPT ![req.id + 1].name = req.name]
           [] req.op = "favorite" ->
                [storedSignals EXCEPT ![req.id + 1].isFavorite = req.favorite]
           [] req.op = "clear"    -> <<>>
           [] req.op = "purge"    ->
                PurgeLoop(storedSignals, CutoffTime(now', req.daysOld))
           [] OTHER               -> storedSignals
    /\ signalCount' = IF req.op = "clear" THEN 0 ELSE signalCount
    /\ req' = [req EXCEPT !.count =
                 IF req.op = "cleanup" THEN Len(storedSignals)
                 ELSE Len(storedSignals) - Len(storedSignals')]
    /\ IF req.op = "transmit"
       THEN /\ txLog' = Append(txLog, TripleOf(storedSignals[req.id + 1]))
            /\ feedback' = TransmitFeedback
       ELSE UNCHANGED <<txLog, feedback>>
    /\ IF req.op \in {"transmit", "list", "status"}
       THEN /\ Reply(req.op, IF req.op = "transmit" THEN "Signal transmitted"
                             ELSE "OK", Len(storedSignals))
            /\ reqPc' = "idle"
       ELSE /\ reqPc' = "save"
            /\ UNCHANGED response
    /\ UNCHANGED <<prefs, flagVars, lastSignalTime, ops, loopPc, newSignal>>

\* what an access at position id can do once id is no longer below size():
\* the behaviour is undefined; the vector is left alone, loses its last
\* element (erase at end()), or the device crashes and reboots
OutOfRange == {"untouched", "lastDropped", "crash"}

\* the handler uses the id it tested although the vector has shrunk since
ReqAccessOutOfRange ==
    /\ UNCHANGED received
    /\ reqPc = "access"
    /\ req.op \in IdOps
    /\ ~ValidId(req.id, storedSignals)
    /\ \E outcome \in OutOfRange :
         IF outcome = "crash"
         THEN /\ buzzerEnabled' = GetBool(prefs.buzzerEnabled, TRUE)
              /\ ledEnabled' = GetBool(prefs.ledEnabled, TRUE)
              /\ sniffingEnabled' = GetBool(prefs.sniffingEnabled, TRUE)
              /\ storedSignals' = loadStoredSignals(prefs)
              /\ signalCount' = prefs.nextId
              /\ lastSignalTime' = 0
              /\ now' = 0
              /\ Reply("boot", "", 0)
              /\ feedback' = {}
              /\ loopPc' = "idle"
              /\ newSignal' = DefaultSlot
              /\ reqPc' = "idle"
              /\ req' = NoRequest
              /\ UNCHANGED <<prefs, txLog, ops>>
         ELSE /\ storedSignals' =
                   IF outcome = "lastDropped" /\ req.op = "delete"
                   THEN Front(storedSignals) ELSE storedSignals
              /\ req' = [req EXCEPT !.count = Len(storedSignals) - Len(storedSignals'),
                                    !.outOfRange = TRUE]
              /\ IF req.op = "transmit"
                 THEN /\ \E garbage \in Triples : txLog' = Append(txLog, garbage)
                      /\ feedback' = TransmitFeedback
                      /\ Reply(req.op, "Signal transmitted", Len(storedSignals))
                      /\ reqPc' = "idle"
                 ELSE /\ reqPc' = "save"
                      /\ UNCHANGED <<txLog, feedback, response>>
              /\ UNCHANGED <<signalCount, prefs, flagVars, lastSignalTime, now,
                             ops, loopPc, newSignal>>

\* the handler's saveStoredSignals() and its reply; /api/cleanup does its
\* sort, erase and save inside performAutoCleanup() here
ReqSave ==
    /\ UNCHANGED received
    /\ reqPc = "save"
    /\ storedSignals' \in (IF req.op = "cleanup"
                           THEN performAutoCleanup(storedSignals, MAX_SIGNALS)
                           ELSE {storedSignals})
    /\ prefs' = saveStoredSignals(prefs, storedSignals', signalCount)
    /\ Reply(req.op,
             CASE req.op = "delete"   -> "Signal deleted"
               [] req.op = "rename"   -> "Signal renamed"
               [] req.op = "favorite" ->
                    IF req.favorite THEN "Signal marked as favorite"
                    ELSE "Signal unmarked as favorite"
               [] req.op = "clear"    -> "All signals cleared"
               [] req.op = "cleanup"  -> "Cleanup complete"
               [] OTHER               -> "Removed",
             IF req.op = "cleanup" THEN req.count - Len(storedSignals')
             ELSE req.count)
    /\ reqPc' = "idle"
    /\ UNCHANGED <<signalCount, flagVars, lastSignalTime, now, txLog, feedback,
                   ops, loopPc, newSignal, req>>

\* the requests the async_tcp task may be handed
Requests ==
    { [NoRequest EXCEPT !.op = o, !.id = i, !.name = n, !.favorite = f] :
        o \in IdOps, i \in Ids, n \in Names, f \in Bools }
    \cup
    { [NoRequest EXCEPT !.op = o, !.daysOld = d] : o \in BulkOps, d \in DaysInputs }

NextTasks ==
    \/ \E t \in Triples : LoopReceive(t)
    \/ LoopScan
    \/ LoopCleanup
    \/ LoopAppend
    \/ LoopSave
    \/ LoopFeedback
    \/ \E r \in Requests : ReqBegin(r)
    \/ ReqAccess
    \/ ReqAccessOutOfRange
    \/ ReqSave

\* the firmware with its two tasks interleaved
SpecTasks == Init /\ [][NextTasks]_vars

-----------------------------------------------------------------------------
(* Vocabulary of the properties *)

\* positions of s that hold triple t
Holding(s, t) == {i \in 1..Len(s) : TripleOf(s[i]) = t}

NonFavorites(s) == {i \in 1..Len(s) : ~s[i].isFavorite}

\* a pass of loop() that presents the non-zero triple t to the archive
Inserts(t) ==
    /\ t.value # 0
    /\ ops'.loop = ops.loop + 1
    /\ Capture(t)

\* a request handler has run
Served == ops'.req = ops.req + 1

-----------------------------------------------------------------------------
\* C1: the triple (value, bitLength, protocol) is unique across the archive
\* in every reachable state, restarts included
UniqueTriples ==
    \A i, j \in 1..Len(storedSignals) :
        i # j => TripleOf(storedSignals[i]) # TripleOf(storedSignals[j])

\* C1: in every reachable state no two stored signals share a triple, and
\* an insert of a triple that is already stored ends with Duplicate and
\* leaves exactly one entry with that triple
C1_UniqueTriple ==
    /\ []UniqueTriples
    /\ [][\A t \in Triples :
            (Holding(storedSignals, t) # {} /\ Inserts(t))
            => /\ response'.text = Duplicate
               /\ Cardinality(Holding(storedSignals', t)) = 1]_vars

\* a duplicate was just refused by an archive that holds several signals
C1_Witness ==
    /\ response.op = "capture"
    /\ response.text = Duplicate
    /\ Len(storedSignals) >= 2

-----------------------------------------------------------------------------
\* C2: the archive never holds more than MAX_SIGNALS signals, and a
\* non-duplicate insert that does not end up in the archive was refused
\* with StorageFull by an archive of MAX_SIGNALS signals
C2_Capacity ==
    /\ [](Len(storedSignals) <= MAX_SIGNALS)
    /\ [][\A t \in Triples :
            (/\ Holding(storedSignals, t) = {}
             /\ Holding(storedSignals', t) = {}
             /\ Inserts(t))
            => /\ response'.text = StorageFull
               /\ Len(storedSignals') = MAX_SIGNALS]_vars

\* an insert was just refused for lack of room
C2_Witness ==
    /\ response.op = "capture"
    /\ response.text = StorageFull
    /\ Len(storedSignals) = MAX_SIGNALS

-----------------------------------------------------------------------------
\* the non-favorites of s carry pairwise distinct timestamps
DistinctStamps(s) ==
    \A i, j \in NonFavorites(s) : i # j => s[i].timestamp # s[j].timestamp

\* new is old less exactly min(floor(MAX_SIGNALS * 0.2), N) signals, all of
\* them non-favorites, each older than every non-favorite that survived
Evicted(old, new) ==
    LET removed == Range(old) \ Range(new)
        quota   == Min(MAX_SIGNALS \div 5, Cardinality(NonFavorites(old)))
    IN  /\ Range(new) \subseteq Range(old)
        /\ Len(new) = Len(old) - quota
        /\ Cardinality(removed) = quota
        /\ \A r \in removed : ~r.isFavorite
        /\ \A r \in removed : \A e \in Range(new) :
              ~e.isFavorite => r.timestamp < e.timestamp

-----------------------------------------------------------------------------
\* age of a signal when the clock reads t; a signal stamped after t (in an
\* earlier boot) has no positive age
Age(t, e) == t - e.timestamp

\* C5: a purge removes exactly the non-favorites whose age exceeds the given
\* number of days and keeps every other signal, whatever the clock shows
C5_PurgeByAge ==
    [][\A daysOld \in DaysInputs :
          (Served /\ PurgeOld(daysOld))
          => storedSignals' =
               SelectSeq(storedSignals,
                         LAMBDA e : e.isFavorite
                                    \/ ~(Age(now', e) > AgeUnits(daysOld)))]_vars

-----------------------------------------------------------------------------
\* C6: in every state between handlers, reloading the archive from the
\* store yields the in-memory sequence: same length, order and fields
C6_RoundTrip == loadStoredSignals(prefs) = storedSignals

\* a delete has just shrunk the archive, leaving a slot beyond the count
C6_Witness ==
    /\ response.text = "Signal deleted"
    /\ Len(prefs.sig) > prefs.signalCount
    /\ storedSignals # <<>>

-----------------------------------------------------------------------------
\* C7: transmit, delete, rename and favorite with an id outside
\* 0 <= id < size report "Invalid signal ID", leave archive and store as
\* they were and send nothing; with an id inside the range they succeed
C7_InvalidId ==
    [][(Served /\ response'.op \in IdOps)
       => \A id \in Ids :
            (\/ Transmit(id)
             \/ DeleteSignal(id)
             \/ \E name \in Names : RenameSignal(id, name)
             \/ \E favorite \in Bools : SetFavorite(id, favorite))
            => IF 0 <= id /\ id < Len(storedSignals)
               THEN /\ response'.text \notin {"Invalid signal ID", "Missing signal ID",
                                             "Missing parameters"}
                    /\ response'.op = "transmit"
                       => txLog' = Append(txLog, TripleOf(storedSignals[id + 1]))
               ELSE /\ response'.text = "Invalid signal ID"
                    /\ storedSignals' = storedSignals
                    /\ prefs' = prefs
                    /\ txLog' = txLog]_vars

\* a command was just refused for its id by an archive that holds signals
C7_Witness ==
    /\ response.op \in IdOps
    /\ response.text = "Invalid signal ID"
    /\ storedSignals # <<>>

-----------------------------------------------------------------------------
\* C8: an insert of a triple that is already stored ends with Duplicate and
\* changes nothing in the archive, at or above the watermark too
C8_DuplicateFrame ==
    [][\A t \in Triples :
          (Holding(storedSignals, t) # {} /\ Inserts(t))
          => /\ response'.text = Duplicate
             /\ storedSignals' = storedSignals
             /\ prefs' = prefs]_vars

\* a duplicate was just refused by an archive at or above the watermark
C8_Witness ==
    /\ response.op = "capture"
    /\ response.text = Duplicate
    /\ Len(storedSignals) >= AUTO_CLEANUP_THRESHOLD

-----------------------------------------------------------------------------
\* C9: an insert that ends with StorageFull leaves the archive as it was
C9_StorageFullFrame ==
    [][\A t \in Triples :
          (response'.text = StorageFull /\ Inserts(t))
          => storedSignals' = storedSignals]_vars

-----------------------------------------------------------------------------
\* C10: a non-duplicate insert is stored whenever the archive holds a
\* non-favorite or fewer than MAX_SIGNALS signals; it ends with StorageFull
\* only when the archive holds MAX_SIGNALS signals that are all favorites
C10_CaptureNotBlocked ==
    [][\A t \in Triples :
          (Holding(storedSignals, t) = {} /\ Inserts(t))
          => /\ (NonFavorites(storedSignals) # {}
                 \/ Len(storedSignals) < MAX_SIGNALS)
                => /\ response'.text = Stored
                   /\ Holding(storedSignals', t) # {}
             /\ response'.text = StorageFull
                => /\ Len(storedSignals) = MAX_SIGNALS
                   /\ NonFavorites(storedSignals) = {}]_vars

\* a signal was just stored by an archive that was full before the insert
C10_Witness ==
    /\ response.op = "capture"
    /\ response.text = Stored
    /\ Len(storedSignals) = MAX_SIGNALS
    /\ \E i \in 1..Len(storedSignals) : storedSignals[i].isFavorite

-----------------------------------------------------------------------------
\* the archive as AUTO_CLEANUP_THRESHOLD inserts into an empty archive within
\* one boot leave it: that many non-favorites, captured one after the other
AtWatermark(s) ==
    /\ Len(s) = AUTO_CLEANUP_THRESHOLD
    /\ NonFavorites(s) = 1..Len(s)
    /\ \A i \in 1..(Len(s) - 1) : s[i].timestamp < s[i + 1].timestamp

\* floor(MAX_SIGNALS * 0.2)
Quota == MAX_SIGNALS \div 5

\* C11 (as stated): the insert that follows AUTO_CLEANUP_THRESHOLD distinct
\* inserts evicts the quota, leaves THRESHOLD - quota + 1 signals before
\* the append and THRESHOLD - quota + 2 after it (751 and 752 at the
\* firmware's scale), and reports that size
C11_Scenario ==
    [][\A t \in Triples :
          (/\ AtWatermark(storedSignals)
           /\ Holding(storedSignals, t) = {}
           /\ Inserts(t))
          => /\ response'.text = Stored
             /\ Len(Front(storedSignals')) = AUTO_CLEANUP_THRESHOLD - Quota + 1
             /\ Len(storedSignals') = AUTO_CLEANUP_THRESHOLD - Quota + 2
             /\ response'.n = AUTO_CLEANUP_THRESHOLD - Quota + 2]_vars

\* C11 (amended): the insert that follows AUTO_CLEANUP_THRESHOLD distinct
\* inserts evicts the quota of oldest signals, leaves THRESHOLD - quota
\* signals before the append and THRESHOLD - quota + 1 after it (750 and
\* 751 at the firmware's scale), and reports Stored with that size
C11_WatermarkInsert ==
    [][\A t \in Triples :
          (/\ AtWatermark(storedSignals)
           /\ Holding(storedSignals, t) = {}
           /\ Inserts(t))
          => /\ response'.text = Stored
             /\ Front(storedSignals') =
                  SubSeq(storedSignals, Quota + 1, AUTO_CLEANUP_THRESHOLD)
             /\ TripleOf(storedSignals'[Len(storedSignals')]) = t
             /\ Len(storedSignals') = AUTO_CLEANUP_THRESHOLD - Quota + 1
             /\ response'.n = AUTO_CLEANUP_THRESHOLD - Quota + 1]_vars

\* the insert at the watermark has just been stored after an eviction: the
\* archive holds THRESHOLD - quota + 1 non-favorites, the oldest one gone
C11_Witness ==
    /\ response.op = "capture"
    /\ response.text = Stored
    /\ response.n = AUTO_CLEANUP_THRESHOLD - Quota + 1
    /\ storedSignals # <<>>
    /\ NonFavorites(storedSignals) = 1..Len(storedSignals)
    /\ storedSignals[1].name = AutoName(Quota)

-----------------------------------------------------------------------------
\* C12: a delete of id k, 0 <= k < n, leaves n - 1 signals: the one that was
\* at id j < k is still at id j, the one that was at id j > k is at id j - 1,
\* every field as it was (ids count from 0, positions from 1)
C12_DeleteShifts ==
    [][(Served /\ response'.op = "delete")
       => \A k \in Ids :
            (0 <= k /\ k < Len(storedSignals) /\ DeleteSignal(k))
            => /\ response'.text = "Signal deleted"
               /\ Len(storedSignals') = Len(storedSignals) - 1
               /\ \A j \in 0..(Len(storedSignals) - 1) :
                    /\ j < k => storedSignals'[j + 1] = storedSignals[j + 1]
                    /\ j > k => storedSignals'[j] = storedSignals[j + 1]]_vars

\* id 2 of a full archive was just deleted: ids 0 and 1 hold what they held,
\* id 2 holds the signal that was at id 3
C12_Witness ==
    /\ response.text = "Signal deleted"
    /\ Len(storedSignals) = MAX_SIGNALS - 1
    /\ storedSignals[1].name = AutoName(0)
    /\ storedSignals[2].name = AutoName(1)
    /\ storedSignals[3].name = AutoName(3)

-----------------------------------------------------------------------------
\* C13: after a cleanup that removed its full quota, a second cleanup with
\* no insert in between removes nothing and leaves the archive as it was
C13_EvictIdempotent ==
    [][(/\ response.op = "cleanup"
        /\ response.n = Quota
        /\ Served
        /\ CleanupNow)
       => storedSignals' = storedSignals]_vars

-----------------------------------------------------------------------------
\* a pass of loop() has run handleReceivedSignal
Captured == ops'.loop = ops.loop + 1

\* C14 (as stated): a capture that ends with Duplicate or StorageFull, or
\* reads a zero value, triggers no tone and no LED flash
C14_FeedbackOnlyStored ==
    [][(Captured /\ response'.text \in {Duplicate, StorageFull, DecodeNoise})
       => feedback' = {}]_vars

\* C14 (amended): every capture of a non-zero reading, whether it ends with
\* Stored, Duplicate or StorageFull, triggers the tone exactly when the
\* buzzer flag is set and the LED flash exactly when the LED flag is set; a
\* zero-value reading triggers neither
C14_FeedbackOnDecode ==
    [][Captured
       => /\ feedback' \subseteq {"receiveSound", "receiveFlash"}
          /\ "receiveSound" \in feedback'
               <=> (buzzerEnabled /\ response'.text # DecodeNoise)
          /\ "receiveFlash" \in feedback'
               <=> (ledEnabled /\ response'.text # DecodeNoise)]_vars

\* a duplicate was just refused with the buzzer off and the LED on: the LED
\* flashed, no tone was played
C14_Witness ==
    /\ response.op = "capture"
    /\ response.text = Duplicate
    /\ ~buzzerEnabled
    /\ feedback = {"receiveFlash"}

-----------------------------------------------------------------------------
\* C15 (as stated): a capture that ends with StorageFull, or reads a zero
\* value, leaves lastSignalTime unchanged
C15_LastSeenOnlyStoredOrDuplicate ==
    [][(Captured /\ response'.text \in {StorageFull, DecodeNoise})
       => lastSignalTime' = lastSignalTime]_vars

\* C15 (amended): a capture of a non-zero reading sets lastSignalTime to the
\* clock reading whatever the outcome (Stored, Duplicate or StorageFull); a
\* zero-value reading leaves it unchanged
C15_LastSeenOnDecode ==
    [][Captured
       => lastSignalTime' = IF response'.text = DecodeNoise THEN lastSignalTime
                            ELSE now']_vars

\* an insert was just refused for lack of room and lastSignalTime moved
C15_Witness ==
    /\ response.op = "capture"
    /\ response.text = StorageFull
    /\ lastSignalTime > 0
    /\ lastSignalTime = now

-----------------------------------------------------------------------------
\* C16: across captures (stored, duplicate or refused), deletes, renames,
\* evictions, purges and restarts the name counter never decreases, and
\* every capture of a non-zero reading moves it up, so that no value is
\* issued twice
C16_CounterMonotonic ==
    [][response'.op # "clear"
       => /\ signalCount' >= signalCount
          /\ (Captured /\ response'.text # DecodeNoise)
               => signalCount' > signalCount]_vars

-----------------------------------------------------------------------------
-----------------------------------------------------------------------------
\* C18: when a handler that takes an id reaches its access to
\* storedSignals[id] (or erase(begin() + id)), the id it tested is still a
\* valid index, whatever the loop task has done since the test
C18_IdStillValid ==
    (reqPc = "access" /\ req.op \in IdOps) => ValidId(req.id, storedSignals)

-----------------------------------------------------------------------------
\* C19: the signals that survive an eviction, manual or inside an insert,
\* keep their relative order: of two survivors, the one at the smaller id
\* before is at the smaller id after
KeepsOrder(old, new) ==
    \A i, j \in 1..Len(old) :
        (i < j /\ old[i] \in Range(new) /\ old[j] \in Range(new))
        => \A a, b \in 1..Len(new) :
             (new[a] = old[i] /\ new[b] = old[j]) => a < b

C19_EvictKeepsOrder ==
    [][/\ (Served /\ CleanupNow) => KeepsOrder(storedSignals, storedSignals')
       /\ (Captured /\ response'.text = Stored
            /\ Len(storedSignals) >= AUTO_CLEANUP_THRESHOLD)
           => KeepsOrder(storedSignals, Front(storedSignals'))]_vars

-----------------------------------------------------------------------------
\* C20: a reading the receiver made ready while sniffing was disabled is
\* never inserted: a pass of loop() that finds such a reading leaves the
\* archive as it is
C20_NoStaleInsert ==
    [][(received # NoReception /\ Captured)
       => storedSignals' = storedSignals]_vars

-----------------------------------------------------------------------------
\* the loop task is inside its insertion (scan, eviction, append, save)
LoopInArchive == loopPc \in {"scan", "cleanup", "append", "save"}

\* the async_tcp task is inside a handler's archive operation
ReqInArchive == reqPc \in {"access", "save"}

\* C4: the capture loop's insertion and a request handler's archive
\* operation are never in progress at the same time
C4_MutualExclusion == ~(LoopInArchive /\ ReqInArchive)

====
